---- MODULE Spec2Model ----
(***************************************************************************)
(* Model of scripts/lib/send_deposits.py: the batched deposit dispatcher   *)
(* (main, send_batch, sign_batch), the endpoint helpers (get_nonce,        *)
(* broadcast_raw_tx, wait_for_receipt) and the mint helper (mint_tokens).  *)
(*                                                                         *)
(* Python values are modelled as follows.  None is the empty tuple and a   *)
(* present value v is the tuple <<v>>.  A decoded JSON-RPC response is a   *)
(* record: answered (rpc_call returned a dict rather than None),           *)
(* has_result ("result" is a key of it) and result (the value under that   *)
(* key; the empty tuple stands for JSON null).  A line of the signer's     *)
(* stdout is a tuple: <<"0x", j, n>> is the raw transaction signed for     *)
(* intent j with nonce n, <<"SIGN_FAILED">> the marker echoed by the       *)
(* script, <<>> an empty line.                                             *)
(***************************************************************************)
EXTENDS Integers, Sequences, FiniteSets, TLC

\* ---------------------------------------------------------------- bounds
MaxDeposits == 3
MaxBatchSize == 2
MaxEndpoints == 2
MaxStartNonce == 1
MaxFnEndpoints == 3

\* ------------------------------------------------------ program constants
PaceTimeout == 120
PaceSleep == 2
ReceiptTimeout == 60
ReceiptSleep == 2
RpcTimeout == 5

None == <<>>
Some(v) == <<v>>

\* ------------------------------------------------------------ rpc_call
NoAnswer == [answered |-> FALSE, has_result |-> FALSE, result |-> <<>>]
ErrorReply == [answered |-> TRUE, has_result |-> FALSE, result |-> <<>>]
ResultReply(x) == [answered |-> TRUE, has_result |-> TRUE, result |-> x]

\* `result and "result" in result`
HasResult(result) == result.answered /\ result.has_result

\* Python truthiness of a string / None / JSON null
Truthy(x) == x # <<>>

\* The node's encoding of a quantity: most significant hex digit first.
RECURSIVE ToHex(_)
ToHex(n) == IF n < 16 THEN <<n>> ELSE Append(ToHex(n \div 16), n % 16)

\* int(s, 16)
RECURSIVE HexToInt(_)
HexToInt(s) ==
    IF Len(s) = 0 THEN 0
    ELSE 16 * HexToInt(SubSeq(s, 1, Len(s) - 1)) + s[Len(s)]

\* ------------------------------------------------------------ get_nonce
\* A reader that keeps walking after an answer and returns the last one.
RECURSIVE get_nonce_from_last(_, _, _)
get_nonce_from_last(replies, ep, queried) ==
    IF ep > Len(replies)
    THEN [value |-> None, queried |-> queried]
    ELSE LET rest == get_nonce_from_last(replies, ep + 1, Append(queried, ep))
         IN  IF HasResult(replies[ep]) /\ rest.value = None
             THEN [value |-> Some(HexToInt(replies[ep].result)),
                   queried |-> rest.queried]
             ELSE rest

\* Walks the endpoints in order; `queried` records the rpc_calls issued.
RECURSIVE get_nonce_from(_, _, _)
get_nonce_from(replies, ep, queried) ==
    IF ep > Len(replies)
    THEN [value |-> None, queried |-> queried]
    ELSE IF HasResult(replies[ep])
         THEN [value |-> Some(HexToInt(replies[ep].result)),
               queried |-> Append(queried, ep)]
         ELSE get_nonce_from(replies, ep + 1, Append(queried, ep))

get_nonce(replies) == get_nonce_from(replies, 1, <<>>)

\* ----------------------------------------------------- broadcast_raw_tx
\* A broadcaster that lets a failing endpoint overwrite an earlier id.
RECURSIVE broadcast_from_overwrite(_, _, _, _, _)
broadcast_from_overwrite(replies, raw_tx, ep, tx_hash, queried) ==
    IF ep > Len(replies)
    THEN [tx_hash |-> tx_hash, queried |-> queried]
    ELSE broadcast_from_overwrite(replies, raw_tx, ep + 1,
                                  IF HasResult(replies[ep])
                                  THEN Some(replies[ep].result) ELSE None,
                                  Append(queried, <<ep, raw_tx>>))

\* A broadcaster that stops at the first endpoint that accepts.
RECURSIVE broadcast_from_first(_, _, _, _, _)
broadcast_from_first(replies, raw_tx, ep, tx_hash, queried) ==
    IF ep > Len(replies)
    THEN [tx_hash |-> tx_hash, queried |-> queried]
    ELSE IF HasResult(replies[ep])
         THEN [tx_hash |-> Some(replies[ep].result),
               queried |-> Append(queried, <<ep, raw_tx>>)]
         ELSE broadcast_from_first(replies, raw_tx, ep + 1, tx_hash,
                                   Append(queried, <<ep, raw_tx>>))

\* Walks every endpoint; `queried` records the rpc_calls issued, each as the
\* endpoint and the raw transaction sent to it.
RECURSIVE broadcast_from(_, _, _, _, _)
broadcast_from(replies, raw_tx, ep, tx_hash, queried) ==
    IF ep > Len(replies)
    THEN [tx_hash |-> tx_hash, queried |-> queried]
    ELSE broadcast_from(replies, raw_tx, ep + 1,
                        IF HasResult(replies[ep])
                        THEN Some(replies[ep].result) ELSE tx_hash,
                        Append(queried, <<ep, raw_tx>>))

broadcast_raw_tx(replies, raw_tx) == broadcast_from(replies, raw_tx, 1, None, <<>>)

\* `if tx_hash:` -- a returned id counts only when it is a non-empty string
TxHashTruthy(tx_hash) == tx_hash # None /\ Truthy(tx_hash[1])

\* ------------------------------------------------------------ sign_batch
\* A script that signs every deposit of the batch with the batch's base nonce.
SignedLine_basenonce(batch_start, base_nonce, i) ==
    <<"0x", batch_start + (i - 1), base_nonce>>

\* The signed line `cast mktx` prints for the i-th deposit of the batch.
SignedLine(batch_start, base_nonce, i) ==
    <<"0x", batch_start + (i - 1), base_nonce + (i - 1)>>

FailedLine == <<"SIGN_FAILED">>

\* First endpoint answering `cast chain-id`, 0 when SIGN_RPC stays empty.
RECURSIVE FindSignRpc(_, _)
FindSignRpc(probe, ep) ==
    IF ep > Len(probe) THEN 0
    ELSE IF probe[ep] THEN ep ELSE FindSignRpc(probe, ep + 1)

\* A script without `|| echo SIGN_FAILED`: a failed deposit prints nothing.
ScriptStdout_noecho(probe, castOk, batch_start, base_nonce) ==
    IF FindSignRpc(probe, 1) = 0
    THEN <<>>
    ELSE LET F[i \in 0..Len(castOk)] ==
                 IF i = 0 THEN <<>>
                 ELSE IF castOk[i]
                      THEN Append(F[i - 1], SignedLine(batch_start, base_nonce, i))
                      ELSE F[i - 1]
         IN  F[Len(castOk)]

\* stdout of the inner script: nothing when no endpoint answers the probe
\* (the script exits 1; a container that fails before the script runs leaves
\* the same empty stdout), else one line per deposit, in order.
ScriptStdout(probe, castOk, batch_start, base_nonce) ==
    IF FindSignRpc(probe, 1) = 0
    THEN <<>>
    ELSE [i \in 1..Len(castOk) |->
            IF castOk[i] THEN SignedLine(batch_start, base_nonce, i)
                         ELSE FailedLine]

RECURSIVE DropLeadingBlank(_)
DropLeadingBlank(lines) ==
    IF Len(lines) > 0 /\ lines[1] = <<>>
    THEN DropLeadingBlank(Tail(lines)) ELSE lines

RECURSIVE DropTrailingBlank(_)
DropTrailingBlank(lines) ==
    IF Len(lines) > 0 /\ lines[Len(lines)] = <<>>
    THEN DropTrailingBlank(SubSeq(lines, 1, Len(lines) - 1)) ELSE lines

\* stdout.strip().split("\n"): an empty text still splits into one "".
StripSplit(lines) ==
    LET body == DropTrailingBlank(DropLeadingBlank(lines))
    IN  IF Len(body) = 0 THEN << <<>> >> ELSE body

\* `line and line != "SIGN_FAILED" and line.startswith("0x")`
IsRawTx(line) == Truthy(line) /\ line # FailedLine /\ line[1] = "0x"

ParseSignerOutput(stdout) ==
    LET lines == StripSplit(stdout)
    IN  [i \in 1..Len(lines) |->
            IF IsRawTx(lines[i]) THEN Some(lines[i]) ELSE None]

sign_batch(probe, castOk, batch_start, base_nonce) ==
    ParseSignerOutput(ScriptStdout(probe, castOk, batch_start, base_nonce))

\* ------------------------------------------------------------------ sets
Min(a, b) == IF a < b THEN a ELSE b

BoolSeqs(n) == [1..n -> BOOLEAN]

NonceReplies(vals) == {NoAnswer, ErrorReply} \cup {ResultReply(ToHex(v)) : v \in vals}

\* ids an accepting endpoint may echo
TxIds == {<<"h", e>> : e \in {1, 2}}

SendReplies == {NoAnswer, ErrorReply} \cup {ResultReply(h) : h \in TxIds}

ReceiptReplies == {NoAnswer, ErrorReply, ResultReply(<<>>), ResultReply(<<"receipt">>)}

\* "latest" counts an endpoint may report around the expected value
LatestVals(expected) == {v \in {expected - 1, expected, expected + 1} : v >= 0}

\* The replies of n endpoints to one get_nonce call.  An endpoint behind the
\* first one that answers with a result is never asked, so its reply is
\* fixed to NoAnswer.
NonceWalks(n, vals) ==
    {r \in [1..n -> NonceReplies(vals)] :
        \A e \in 1..n : HasResult(r[e]) => \A f \in (e + 1)..n : r[f] = NoAnswer}

\* Seconds a walk over the endpoints takes: each endpoint that gives no
\* answer holds its rpc_call until the timeout, an answer is immediate.
RECURSIVE WalkTime(_, _)
WalkTime(replies, queried) ==
    IF Len(queried) = 0 THEN 0
    ELSE (IF replies[Head(queried)].answered THEN 0 ELSE RpcTimeout)
         + WalkTime(replies, Tail(queried))

\* ----------------------------------------------------------------- state
VARIABLES
    mode,            \* "dispatch" | "mint" | "fn": which entry point runs
    pc,              \* position of the process
    deposits,        \* len(deposits)
    batch_size,      \* config batch_size
    endpoints,       \* len(config["el_endpoints"])
    account_nonce,   \* the account's transaction count when the process starts
    healthy,         \* TRUE: every endpoint answers and the signer signs all
    nonce,           \* main: nonce (-1 before it is assigned)
    total_sent,      \* main: total_sent
    total_failed,    \* main: total_failed
    batch_start,     \* main: batch_start of the batch in hand
    expected_nonce,  \* main: expected_nonce (-1 before it is assigned)
    raw_txs,         \* send_batch: raw_txs returned by sign_batch
    idx,             \* send_batch: position of the broadcast loop (1-based)
    sent,            \* send_batch: sent
    failed,          \* send_batch: failed
    elapsed,         \* seconds since the wait in hand began (0 outside a wait)
    current,         \* main: current, the barrier's last "latest" read
    progress,        \* stdout: the last "Sent x/count (y failed)" line as <<x, y>>
    warnings,        \* stdout: number of WARNING lines printed
    summary,         \* stdout: the "DONE sent=.. failed=.." line as <<sent, failed>>
    errors,          \* stderr: lines printed, oldest first
    exit_status,     \* None while running, else <<status>>
    start_read,      \* history: whether line 201 ran and what get_nonce returned
    sign_rpc,        \* history: SIGN_RPC of the signer run in hand (0: none found)
    cast_ok,         \* history: per-deposit outcome of `cast mktx` in that run
    send_log,        \* history: one record per send_batch call
    last_batch,      \* history: what the last send_batch call returned
    barrier_log,     \* history: one record per barrier that has ended
    net,             \* the network's view of the depositor account
    mint,            \* mint_tokens: its locals and what it met, see MintStart
    clean,           \* history: every signing and every broadcast succeeded so far
    fn_in,           \* SpecFn: the arguments of the helper under test
    fn_out           \* SpecFn: what the helper returned

vars == <<mode, pc, deposits, batch_size, endpoints, account_nonce, healthy,
          nonce, total_sent,
          total_failed, batch_start, expected_nonce, raw_txs, idx, sent, failed,
          elapsed, current, progress, warnings, summary, errors, exit_status,
          start_read, sign_rpc, cast_ok, send_log, last_batch, barrier_log,
          net, mint, clean, fn_in, fn_out>>

config == <<mode, deposits, batch_size, endpoints, account_nonce, healthy>>
fn_vars == <<fn_in, fn_out>>
batch_vars == <<raw_txs, idx, sent, failed, sign_rpc, cast_ok>>
pace_vars == <<elapsed, current>>
counters == <<nonce, total_sent, total_failed, batch_start, expected_nonce>>
stdout == <<progress, warnings, summary>>

\* A slice that is not cut at the end of the list.
BatchLen_full(start) == batch_size

\* len(batch) for batch = deposits[batch_start:batch_start + batch_size]
BatchLen(start) == Min(batch_size, deposits - start)

\* signer: what the signer container did ("" before it ran); raw_tx: its
\* stripped stdout; accepted: whether "some" or "none" of the endpoints took
\* the broadcast ("" before it); tx_hash: broadcast_raw_tx's value; polled: a
\* receipt round was issued; receipt: some endpoint reported a receipt in a
\* round begun before the deadline; returned: mint_tokens' value.
MintStart == [signer |-> "", raw_tx |-> None, accepted |-> "", tx_hash |-> None,
              polled |-> FALSE, receipt |-> FALSE, returned |-> None]

ProcessStart ==
    /\ pc = "start"
    /\ nonce = -1
    /\ total_sent = 0 /\ total_failed = 0
    /\ batch_start = 0 /\ expected_nonce = -1
    /\ raw_txs = <<>> /\ idx = 0 /\ sent = 0 /\ failed = 0
    /\ elapsed = 0 /\ current = None
    /\ progress = None /\ warnings = 0 /\ summary = None
    /\ errors = <<>> /\ exit_status = None
    /\ start_read = [done |-> FALSE, value |-> None]
    /\ sign_rpc = 0 /\ cast_ok = <<>>
    /\ send_log = <<>> /\ last_batch = None /\ barrier_log = <<>>
    /\ mint = MintStart /\ clean = TRUE

\* The account is not modelled: endpoints may report any count.
NetOff == [sole_sender |-> FALSE, lossy |-> FALSE, confirmed |-> 0, pool |-> {}]

\* Any small run in an arbitrary environment, or the run of 25 deposits in
\* batches of 10 from nonce 5 against 3 endpoints in a healthy one.
Init ==
    /\ \/ /\ mode \in {"dispatch", "mint"}
          /\ deposits \in IF mode = "dispatch" THEN 0..MaxDeposits ELSE {0}
          /\ batch_size \in IF mode = "dispatch" THEN 1..MaxBatchSize ELSE {1}
          /\ endpoints \in {1, MaxEndpoints}
          /\ account_nonce \in {0, MaxStartNonce}
          /\ healthy = FALSE
       \/ /\ mode = "dispatch"
          /\ deposits = 25 /\ batch_size = 10 /\ endpoints = 3
          /\ account_nonce = 5
          /\ healthy = TRUE
    /\ ProcessStart
    /\ net = NetOff
    /\ fn_in = <<>> /\ fn_out = <<>>

\* ------------------------------------------------------------------ main
\* main, lines 200-208: the starting nonce, read at "pending".
\* A fatal path that reports success to the caller.
FatalExit_zero == Some(0)

\* main, line 204: sys.exit(1)
FatalExit == Some(1)

ReadStartNonce ==
    /\ mode = "dispatch" /\ pc = "start"
    /\ \E replies \in NonceWalks(endpoints, {account_nonce}) :
         LET got == get_nonce(replies).value
         IN  /\ healthy => HasResult(replies[1])
             /\ start_read' = [done |-> TRUE, value |-> got]
             /\ IF got = None
                THEN /\ errors' = Append(errors, "ERROR: could not get nonce")
                     /\ exit_status' = FatalExit
                     /\ pc' = "exited"
                     /\ UNCHANGED nonce
                ELSE /\ nonce' = got[1]
                     /\ pc' = "loop"
                     /\ UNCHANGED <<errors, exit_status>>
    /\ UNCHANGED <<config, net, barrier_log, total_sent, total_failed, batch_start, expected_nonce,
                   batch_vars, pace_vars, stdout, send_log, last_batch,
                   mint, clean, fn_vars>>

\* A loop whose body runs once before its condition is tested.
MoreBatches_dowhile == batch_start < deposits \/ batch_start = 0

\* main, line 210: range(0, len(deposits), batch_size) has a next value
MoreBatches == batch_start < deposits

\* The record of one send_batch(batch, config, nonce) call.
SendCall == [base |-> nonce, start |-> batch_start, len |-> BatchLen(batch_start)]

\* send_batch, lines 115-128: one signer run for the batch in hand.  `probe`
\* tells which endpoints answer `cast chain-id`, `ok` which deposits
\* `cast mktx` signs (none when the script exits before signing).
SignBatch ==
    /\ mode = "dispatch" /\ pc = "loop" /\ MoreBatches
    /\ \E probe \in BoolSeqs(endpoints), ok \in BoolSeqs(BatchLen(batch_start)) :
         /\ FindSignRpc(probe, 1) = 0 => \A i \in DOMAIN ok : ~ok[i]
         /\ healthy => probe[1] /\ \A i \in DOMAIN ok : ok[i]
         /\ raw_txs' = sign_batch(probe, ok, batch_start, nonce)
         /\ sign_rpc' = FindSignRpc(probe, 1)
         /\ cast_ok' = ok
         /\ clean' = (clean /\ FindSignRpc(probe, 1) # 0 /\ \A i \in DOMAIN ok : ok[i])
    /\ idx' = 1 /\ sent' = 0 /\ failed' = 0
    /\ send_log' = Append(send_log, SendCall)
    /\ pc' = "broadcast"
    /\ UNCHANGED <<config, net, barrier_log, start_read, counters, pace_vars, stdout, errors, exit_status,
                   last_batch, mint, fn_vars>>

\* sign_batch, lines 97-101: subprocess.run raises TimeoutExpired after 120 s;
\* nothing catches it, so the interpreter prints a traceback and exits 1.
SignTimeout ==
    /\ mode = "dispatch" /\ pc = "loop" /\ MoreBatches
    /\ ~healthy
    /\ send_log' = Append(send_log, SendCall)
    /\ errors' = Append(errors, "Traceback: subprocess.TimeoutExpired")
    /\ exit_status' = Some(1)
    /\ clean' = FALSE
    /\ pc' = "exited"
    /\ UNCHANGED <<config, net, barrier_log, start_read, counters, batch_vars, pace_vars, stdout, last_batch,
                   mint, fn_vars>>

\* The account as the network sees it after one broadcast_raw_tx call: the
\* transaction is in the network's pool when an endpoint's reply carried its
\* id, and also when an endpoint took it and the reply did not come back
\* within the rpc_call timeout (`lost`).  The third field of a raw transaction
\* is its nonce.
Delivered(replies, lost, raw_tx) ==
    IF net.sole_sender /\ (lost \/ \E e \in DOMAIN replies : HasResult(replies[e]))
    THEN [net EXCEPT !.pool = @ \cup {raw_tx[3]}]
    ELSE net

\* send_batch, lines 129-137: one turn of the loop over raw_txs.
BroadcastItem ==
    /\ mode = "dispatch" /\ pc = "broadcast" /\ idx <= Len(raw_txs)
    /\ IF Truthy(raw_txs[idx])
       THEN \E replies \in [1..endpoints -> SendReplies] :
              LET hash == broadcast_raw_tx(replies, raw_txs[idx][1]).tx_hash
              IN  /\ healthy => \A e \in 1..endpoints : HasResult(replies[e])
                  /\ sent' = IF TxHashTruthy(hash) THEN sent + 1 ELSE sent
                  /\ failed' = IF TxHashTruthy(hash) THEN failed ELSE failed + 1
                  /\ clean' = (clean /\ \E e \in 1..endpoints : HasResult(replies[e]))
                  /\ \E lost \in BOOLEAN :
                       /\ lost => /\ net.sole_sender /\ net.lossy
                                   /\ \E e \in 1..endpoints : replies[e] = NoAnswer
                       /\ net' = Delivered(replies, lost, raw_txs[idx][1])
       ELSE /\ failed' = failed + 1
            /\ UNCHANGED <<sent, clean, net>>
    /\ idx' = idx + 1
    /\ UNCHANGED <<config, barrier_log, start_read, counters, raw_txs, sign_rpc, cast_ok, pace_vars,
                   stdout, errors, exit_status, send_log, last_batch, pc,
                   mint, fn_vars>>

\* A dispatcher that gives the numbers of failed items back.
NextExpected_reclaim == nonce + sent

\* main, line 216: expected_nonce = nonce + len(batch)
NextExpected == nonce + BatchLen(batch_start)

\* A loop that skips the barrier.
NeedsBarrier_never == FALSE

\* A loop that also waits after the final batch.
NeedsBarrier_always == TRUE

\* main, line 221: batch_start + batch_size < len(deposits)
NeedsBarrier == batch_start + batch_size < deposits

\* main, lines 213-223 and 232: send_batch returns (its locals go out of
\* scope); the totals, the progress line, and then either the barrier or the
\* next turn of the batch loop.
FinishBatch ==
    /\ mode = "dispatch" /\ pc = "broadcast" /\ idx > Len(raw_txs)
    /\ total_sent' = total_sent + sent
    /\ total_failed' = total_failed + failed
    /\ expected_nonce' = NextExpected
    /\ progress' = Some(<<total_sent' + total_failed', total_failed'>>)
    /\ last_batch' = Some([sent |-> sent, failed |-> failed, sign_rpc |-> sign_rpc,
                           len |-> BatchLen(batch_start)])
    /\ raw_txs' = <<>> /\ idx' = 0 /\ sent' = 0 /\ failed' = 0
    /\ sign_rpc' = 0 /\ cast_ok' = <<>>
    /\ IF NeedsBarrier
       THEN /\ pc' = "pace"
            /\ elapsed' = 0
            /\ current' = None
            /\ UNCHANGED <<nonce, batch_start>>
       ELSE /\ nonce' = expected_nonce'
            /\ batch_start' = batch_start + batch_size
            /\ pc' = "loop"
            /\ UNCHANGED pace_vars
    /\ UNCHANGED <<config, net, barrier_log, start_read, warnings, summary, errors, exit_status, send_log,
                   mint, clean, fn_vars>>

\* A barrier that waits for the count to pass the expected value.
ReachedExpected_strict(got, expected) == got # None /\ got[1] > expected

\* main, line 226: current is not None and current >= expected_nonce
ReachedExpected(got, expected) == got # None /\ got[1] >= expected

\* The "latest" counts an endpoint may report during a barrier: any of
\* LatestVals, but never more than the network has confirmed when the account
\* is modelled.
Reportable(expected) ==
    IF net.sole_sender
    THEN {Min(v, net.confirmed) : v \in LatestVals(expected)}
    ELSE LatestVals(expected)

\* A barrier without a deadline.
BeforeDeadline_forever == TRUE

\* main, lines 222 and 224: time.time() < deadline, deadline = start + 120
BeforeDeadline == elapsed < PaceTimeout

\* A barrier that takes over the count an endpoint reports.
NonceAfterBarrier_resync(got) == IF got # None THEN got[1] ELSE expected_nonce

\* main, line 232: nonce = expected_nonce, whatever `current` holds
NonceAfterBarrier(got) == expected_nonce

\* The record of a barrier that ends; `how` is "reached" or "deadline".
BarrierEnd(how) == [expected |-> expected_nonce, how |-> how]

\* main, lines 224-228 and 232: one turn of the barrier's while loop.
PacePoll ==
    /\ mode = "dispatch" /\ pc = "pace" /\ BeforeDeadline
    /\ \E replies \in NonceWalks(endpoints, Reportable(expected_nonce)) :
         LET call == get_nonce(replies)
             got == call.value
             delay == WalkTime(replies, call.queried)
         IN  /\ healthy => HasResult(replies[1])
             /\ current' = got
             /\ IF ReachedExpected(got, expected_nonce)
                THEN /\ nonce' = NonceAfterBarrier(got)
                     /\ batch_start' = batch_start + batch_size
                     /\ pc' = "loop"
                     /\ elapsed' = 0
                     /\ barrier_log' = Append(barrier_log, BarrierEnd("reached"))
                ELSE /\ elapsed' = elapsed + delay + PaceSleep
                     /\ UNCHANGED <<nonce, batch_start, pc, barrier_log>>
    /\ UNCHANGED <<config, net, start_read, total_sent, total_failed, expected_nonce, batch_vars,
                   stdout, errors, exit_status, send_log, last_batch,
                   mint, clean, fn_vars>>

\* main, lines 229-232: the while's else branch, taken when the deadline passed.
PaceTimedOut ==
    /\ mode = "dispatch" /\ pc = "pace" /\ ~BeforeDeadline
    /\ warnings' = warnings + 1
    /\ nonce' = NonceAfterBarrier(current)
    /\ barrier_log' = Append(barrier_log, BarrierEnd("deadline"))
    /\ batch_start' = batch_start + batch_size
    /\ pc' = "loop"
    /\ elapsed' = 0
    /\ UNCHANGED <<config, net, start_read, total_sent, total_failed, expected_nonce, batch_vars,
                   current, progress, summary, errors, exit_status, send_log,
                   last_batch, mint, clean, fn_vars>>

\* main, lines 234-235: the batch loop is exhausted.
PrintSummary ==
    /\ mode = "dispatch" /\ pc = "loop" /\ ~MoreBatches
    /\ summary' = Some(<<total_sent, total_failed>>)
    /\ exit_status' = Some(0)
    /\ pc' = "exited"
    /\ UNCHANGED <<config, net, barrier_log, start_read, counters, batch_vars, pace_vars, progress, warnings,
                   errors, send_log, last_batch, mint, clean, fn_vars>>

\* ----------------------------------------------------------- mint_tokens
dispatch_vars == <<counters, batch_vars, stdout, start_read, send_log, last_batch,
                   barrier_log, clean>>

\* main, line 185: sys.exit(0 if ok else 1)
MintExit(ok) == Some(IF ok THEN 0 ELSE 1)

\* What the mint script leaves on stdout, stripped: `cast mktx` prints the raw
\* transaction, or (a signer that exits 0 without one) nothing or other text.
MintStdouts == {<<"0x", "mint">>, <<>>, <<"text">>}

\* mint_tokens, lines 157-168: the signer run and the checks of its result.
\* The script exits 1 when no endpoint answers the probe or `cast mktx` fails.
MintSign ==
    /\ mode = "mint" /\ pc = "start"
    /\ \E probe \in BoolSeqs(endpoints), castOk \in BOOLEAN, text \in MintStdouts :
         LET returncode == IF FindSignRpc(probe, 1) = 0 \/ ~castOk THEN 1 ELSE 0
             raw_tx == IF returncode = 0 THEN text ELSE <<>>
             what == IF FindSignRpc(probe, 1) = 0 THEN "unreachable"
                     ELSE IF ~castOk THEN "exit1" ELSE "exit0"
         IN  IF returncode # 0 \/ ~Truthy(raw_tx) \/ raw_tx[1] # "0x"
             THEN /\ mint' = [mint EXCEPT !.signer = what, !.raw_tx = Some(raw_tx),
                                          !.returned = Some(FALSE)]
                  /\ exit_status' = MintExit(FALSE)
                  /\ pc' = "exited"
             ELSE /\ mint' = [mint EXCEPT !.signer = what, !.raw_tx = Some(raw_tx)]
                  /\ pc' = "mint_broadcast"
                  /\ UNCHANGED exit_status
    /\ UNCHANGED <<config, net, dispatch_vars, pace_vars, errors, fn_vars>>

\* mint_tokens, lines 157-161: subprocess.run raises TimeoutExpired after 60 s;
\* nothing catches it, so the interpreter prints a traceback and exits 1.
MintSignTimeout ==
    /\ mode = "mint" /\ pc = "start"
    /\ mint' = [mint EXCEPT !.signer = "timeout"]
    /\ errors' = Append(errors, "Traceback: subprocess.TimeoutExpired")
    /\ exit_status' = Some(1)
    /\ pc' = "exited"
    /\ UNCHANGED <<config, net, dispatch_vars, pace_vars, fn_vars>>

\* mint_tokens, lines 170-172 (and 57, the deadline of the wait that follows).
MintBroadcast ==
    /\ mode = "mint" /\ pc = "mint_broadcast"
    /\ \E replies \in [1..endpoints -> SendReplies] :
         LET hash == broadcast_raw_tx(replies, mint.raw_tx[1]).tx_hash
             took == IF \E e \in 1..endpoints : HasResult(replies[e])
                     THEN "some" ELSE "none"
         IN  IF ~TxHashTruthy(hash)
             THEN /\ mint' = [mint EXCEPT !.tx_hash = hash, !.accepted = took,
                                          !.returned = Some(FALSE)]
                  /\ exit_status' = MintExit(FALSE)
                  /\ pc' = "exited"
             ELSE /\ mint' = [mint EXCEPT !.tx_hash = hash, !.accepted = took]
                  /\ pc' = "mint_wait"
                  /\ UNCHANGED exit_status
    /\ elapsed' = 0
    /\ UNCHANGED <<config, net, dispatch_vars, current, errors, fn_vars>>

\* A wait that takes any reply with a "result" key, null included, for a receipt.
RECURSIVE FindReceipt_anyresult(_, _)
FindReceipt_anyresult(replies, ep) ==
    IF ep > Len(replies) THEN 0
    ELSE IF HasResult(replies[ep]) THEN ep
         ELSE FindReceipt_anyresult(replies, ep + 1)

\* wait_for_receipt, lines 59-62: the first endpoint whose reply carries a
\* non-null result, 0 when there is none.
RECURSIVE FindReceipt(_, _)
FindReceipt(replies, ep) ==
    IF ep > Len(replies) THEN 0
    ELSE IF HasResult(replies[ep]) /\ Truthy(replies[ep].result) THEN ep
         ELSE FindReceipt(replies, ep + 1)

ReceiptWalks(n) ==
    {r \in [1..n -> ReceiptReplies] :
        \A e \in 1..n : (HasResult(r[e]) /\ Truthy(r[e].result))
                            => \A f \in (e + 1)..n : r[f] = NoAnswer}

\* wait_for_receipt, lines 58-63, and mint_tokens line 176 / main line 185:
\* one turn of the while loop.
MintPoll ==
    /\ mode = "mint" /\ pc = "mint_wait" /\ elapsed < ReceiptTimeout
    /\ \E replies \in ReceiptWalks(endpoints) :
         LET found == FindReceipt(replies, 1)
             asked == IF found = 0 THEN [e \in 1..endpoints |-> e]
                      ELSE [e \in 1..found |-> e]
             seen == \E e \in 1..endpoints : replies[e] = ResultReply(<<"receipt">>)
         IN  IF found # 0
             THEN /\ mint' = [mint EXCEPT !.polled = TRUE, !.receipt = seen,
                                          !.returned = Some(TRUE)]
                  /\ exit_status' = MintExit(TRUE)
                  /\ pc' = "exited"
                  /\ elapsed' = 0
             ELSE /\ mint' = [mint EXCEPT !.polled = TRUE, !.receipt = seen]
                  /\ elapsed' = elapsed + WalkTime(replies, asked) + ReceiptSleep
                  /\ UNCHANGED <<exit_status, pc>>
    /\ UNCHANGED <<config, net, dispatch_vars, current, errors, fn_vars>>

\* wait_for_receipt, line 64, and mint_tokens line 176 / main line 185.
MintWaitTimedOut ==
    /\ mode = "mint" /\ pc = "mint_wait" /\ elapsed >= ReceiptTimeout
    /\ mint' = [mint EXCEPT !.returned = Some(FALSE)]
    /\ exit_status' = MintExit(FALSE)
    /\ pc' = "exited"
    /\ elapsed' = 0
    /\ UNCHANGED <<config, net, dispatch_vars, current, errors, fn_vars>>

Next ==
    \/ ReadStartNonce
    \/ SignBatch
    \/ SignTimeout
    \/ BroadcastItem
    \/ FinishBatch
    \/ PacePoll
    \/ PaceTimedOut
    \/ PrintSummary
    \/ MintSign
    \/ MintSignTimeout
    \/ MintBroadcast
    \/ MintPoll
    \/ MintWaitTimedOut

Spec == Init /\ [][Next]_vars

\* ------------------------------------------------- dispatch runs, with progress
\* Any small dispatch run in an arbitrary environment.
InitLive ==
    /\ mode = "dispatch"
    /\ deposits \in 0..MaxDeposits
    /\ batch_size \in 1..MaxBatchSize
    /\ endpoints \in {1, MaxEndpoints}
    /\ account_nonce = 0
    /\ healthy = FALSE
    /\ ProcessStart
    /\ net = NetOff
    /\ fn_in = <<>> /\ fn_out = <<>>

\* main, lines 187-235: the steps of a dispatch run.
NextDispatch ==
    \/ ReadStartNonce
    \/ SignBatch
    \/ SignTimeout
    \/ BroadcastItem
    \/ FinishBatch
    \/ PacePoll
    \/ PaceTimedOut
    \/ PrintSummary

\* The process is one thread that runs its next statement whenever it has one;
\* every rpc_call returns within its timeout and every sleep ends.
SpecLive == InitLive /\ [][NextDispatch]_vars /\ WF_vars(NextDispatch)

\* ------------------------------------------ the account on the network
\* A dispatch run against an account that has no other sender: the network
\* has confirmed account_nonce transactions of it and none is pending, so the
\* starting read returns the confirmed count.  With `lossy` an endpoint may
\* take a transaction and fail to reply in time.  One endpoint is enough:
\* what the network holds is decided by what any one endpoint took.
InitChain ==
    /\ mode = "dispatch"
    /\ deposits \in 0..MaxDeposits
    /\ batch_size \in 1..MaxBatchSize
    /\ endpoints = 1
    /\ account_nonce = MaxStartNonce
    /\ healthy = FALSE
    /\ ProcessStart
    /\ \E l \in BOOLEAN :
         net = [sole_sender |-> TRUE, lossy |-> l,
                confirmed |-> account_nonce, pool |-> {}]
    /\ fn_in = <<>> /\ fn_out = <<>>

\* The network confirms the account's pooled transaction whose nonce is the
\* confirmed count, and no other.
Confirm ==
    /\ net.sole_sender /\ net.confirmed \in net.pool
    /\ net' = [net EXCEPT !.confirmed = @ + 1]
    /\ UNCHANGED <<config, pc, pace_vars, dispatch_vars, mint, errors, exit_status,
                   fn_vars>>

NextChain ==
    \/ NextDispatch
    \/ Confirm

SpecChain == InitChain /\ [][NextChain]_vars

\* ------------------------------------------------- the helpers on their own
\* One call of get_nonce, broadcast_raw_tx or sign_batch on arguments drawn
\* from bounded sets; sign_batch is given the non-empty batches main forms.
FnInputs ==
    UNION {
        {[fn |-> "get_nonce", replies |-> r] :
            r \in [1..n -> NonceReplies(0..MaxStartNonce)]}
        \cup {[fn |-> "broadcast_raw_tx", replies |-> r, raw_tx |-> t] :
                r \in [1..n -> SendReplies], t \in {<<"0x", 0, 0>>, <<"0x", 1, 1>>}}
      : n \in 1..MaxFnEndpoints}
    \cup UNION {
        {[fn |-> "sign_batch", probe |-> p, cast_ok |-> c, start |-> 0, base |-> b] :
            p \in BoolSeqs(MaxEndpoints), c \in BoolSeqs(k), b \in {0, MaxStartNonce}}
      : k \in 1..MaxBatchSize}

InitFn ==
    /\ mode = "fn"
    /\ deposits = 0 /\ batch_size = 1 /\ endpoints = 1
    /\ account_nonce = 0 /\ healthy = FALSE
    /\ ProcessStart
    /\ net = NetOff
    /\ fn_in \in FnInputs
    /\ fn_out = <<>>

fn_frame == <<config, net, pace_vars, dispatch_vars, mint, errors, exit_status, fn_in>>

CallGetNonce ==
    /\ mode = "fn" /\ pc = "start" /\ fn_in.fn = "get_nonce"
    /\ fn_out' = get_nonce(fn_in.replies)
    /\ pc' = "exited"
    /\ UNCHANGED fn_frame

CallBroadcast ==
    /\ mode = "fn" /\ pc = "start" /\ fn_in.fn = "broadcast_raw_tx"
    /\ fn_out' = broadcast_raw_tx(fn_in.replies, fn_in.raw_tx)
    /\ pc' = "exited"
    /\ UNCHANGED fn_frame

CallSignBatch ==
    /\ mode = "fn" /\ pc = "start" /\ fn_in.fn = "sign_batch"
    /\ fn_out' = sign_batch(fn_in.probe, fn_in.cast_ok, fn_in.start, fn_in.base)
    /\ pc' = "exited"
    /\ UNCHANGED fn_frame

NextFn == CallGetNonce \/ CallBroadcast \/ CallSignBatch

SpecFn == InitFn /\ [][NextFn]_vars

\* ================================================================ claims
RECURSIVE SumLen(_, _)
SumLen(log, k) == IF k = 0 THEN 0 ELSE log[k].len + SumLen(log, k - 1)

Dispatching == mode = "dispatch"
Finished == Dispatching /\ pc = "exited" /\ summary # None

\* C1: every send_batch call gets as base the starting nonce plus the number
\* of deposits in all earlier batches, whatever was signed or broadcast; main's
\* nonce between batches is the starting nonce plus the deposits handed out so
\* far, and after the last batch it is the starting nonce plus len(deposits).
C1_BaseSequence ==
    Dispatching /\ start_read.value # None =>
        /\ \A k \in DOMAIN send_log :
             send_log[k].base = start_read.value[1] + SumLen(send_log, k - 1)
        /\ pc = "loop" => nonce = start_read.value[1] + SumLen(send_log, Len(send_log))
        /\ Finished => nonce = start_read.value[1] + deposits

\* C1 witness: a finished run of several batches in which nothing was sent.
C1_Witness ==
    /\ Finished /\ Len(send_log) >= 2 /\ total_sent = 0
    /\ nonce = start_read.value[1] + deposits

\* C2: when no endpoint answers the signer's probe, sign_batch marks every
\* slot of the batch failed, send_batch returns (0, len(batch)), and a finished
\* single-batch run reports sent=0 failed=len(deposits) with exit status 0.
C2_AbortFailsEverySlot ==
    /\ (Dispatching /\ pc = "broadcast" /\ sign_rpc = 0) =>
          /\ Len(raw_txs) = BatchLen(batch_start)
          /\ \A i \in DOMAIN raw_txs : raw_txs[i] = None
    /\ (Dispatching /\ last_batch # None /\ last_batch[1].sign_rpc = 0) =>
          /\ last_batch[1].sent = 0
          /\ last_batch[1].failed = last_batch[1].len
    /\ (Finished /\ Len(send_log) = 1 /\ last_batch[1].sign_rpc = 0) =>
          /\ summary = Some(<<0, deposits>>)
          /\ exit_status = Some(0)

\* C3: once the starting nonce is read, the run ends with the summary and exit
\* status 0 whatever the signer and the broadcasts do.
C3_AlwaysSummary ==
    (Dispatching /\ start_read.value # None /\ pc = "exited") =>
        /\ summary # None
        /\ exit_status = Some(0)

\* C4: when the starting nonce read returns None the run ends at once with
\* exit status 1 and the error line: no batch is signed, nothing is broadcast,
\* no progress or summary line is printed.
C4_FatalWithoutNonce ==
    (Dispatching /\ start_read.done /\ start_read.value = None) =>
        /\ pc = "exited"
        /\ exit_status = Some(1)
        /\ errors = <<"ERROR: could not get nonce">>
        /\ send_log = <<>> /\ raw_txs = <<>> /\ last_batch = None
        /\ total_sent = 0 /\ total_failed = 0
        /\ progress = None /\ warnings = 0 /\ summary = None

\* C4 witness: the read was made and no endpoint answered it.
C4_Witness ==
    /\ Dispatching /\ start_read.done /\ start_read.value = None
    /\ deposits > 0 /\ endpoints > 1 /\ pc = "exited"

\* C5: a barrier turn whose "latest" read is at least the expected nonce ends
\* the barrier with no warning; a turn whose read is lower or None keeps
\* waiting without a warning; once the deadline has passed the barrier ends
\* with exactly one warning.  Either way the run goes on to the next batch
\* with nonce = expected_nonce and is not aborted.
C5_Barrier ==
    [][(Dispatching /\ pc = "pace") =>
         /\ exit_status' = None
         /\ pc' \in {"pace", "loop"}
         /\ pc' = "loop" =>
              /\ nonce' = expected_nonce
              /\ batch_start' = batch_start + batch_size
              /\ batch_start' < deposits
         /\ elapsed < PaceTimeout =>
              /\ warnings' = warnings
              /\ pc' = "loop" <=> (current' # None /\ current'[1] >= expected_nonce)
         /\ elapsed >= PaceTimeout =>
              /\ warnings' = warnings + 1
              /\ pc' = "loop"]_vars

\* C5 witness: a run whose first barrier timed out with a warning and whose
\* second barrier was ended by a read that reached the expected nonce.
C5_Witness ==
    /\ Dispatching /\ pc = "loop" /\ Len(send_log) = 2 /\ warnings = 1
    /\ current # None /\ current[1] >= expected_nonce

FnReturned(name) == mode = "fn" /\ pc = "exited" /\ fn_in.fn = name

\* the endpoint took the transaction: its reply carries an id
Accepts(reply) == \E h \in TxIds : reply = ResultReply(h)

\* C6: broadcast_raw_tx returns None exactly when no endpoint of the set
\* accepts; when at least one accepts it returns a non-empty id.
C6_BroadcastNoneIffAllFail ==
    FnReturned("broadcast_raw_tx") =>
        LET r == fn_in.replies
        IN  /\ fn_out.tx_hash = None <=> \A e \in DOMAIN r : ~Accepts(r[e])
            /\ (\E e \in DOMAIN r : Accepts(r[e])) =>
                   fn_out.tx_hash # None /\ fn_out.tx_hash[1] \in TxIds

\* C6 witness: the first endpoint accepts, the last one fails, an id comes back.
C6_Witness ==
    /\ FnReturned("broadcast_raw_tx") /\ Len(fn_in.replies) >= 2
    /\ Accepts(fn_in.replies[1])
    /\ ~Accepts(fn_in.replies[Len(fn_in.replies)])
    /\ fn_out.tx_hash # None

\* the nonce reported by a reply that carries one
Reported(reply, v) == reply = ResultReply(ToHex(v))

\* first endpoint, in list order, that answers with a result; 0 if none does
FirstAnswering(r) ==
    IF \E e \in DOMAIN r : \E v \in 0..MaxStartNonce : Reported(r[e], v)
    THEN CHOOSE e \in DOMAIN r :
           /\ \E v \in 0..MaxStartNonce : Reported(r[e], v)
           /\ \A f \in 1..(e - 1) : \A v \in 0..MaxStartNonce : ~Reported(r[f], v)
    ELSE 0

\* C7: get_nonce returns the value reported by the first endpoint, in list
\* order, that answers successfully, and None only when none does; it asks the
\* endpoints once each, in order, and none behind the first that answered.
C7_FirstAnswerWins ==
    FnReturned("get_nonce") =>
        LET r == fn_in.replies
            f == FirstAnswering(r)
        IN  IF f = 0
            THEN /\ fn_out.value = None
                 /\ fn_out.queried = [e \in 1..Len(r) |-> e]
            ELSE /\ fn_out.value # None
                 /\ Reported(r[f], fn_out.value[1])
                 /\ fn_out.queried = [e \in 1..f |-> e]

\* C7 witness: the first endpoint fails, the second and third answer with
\* different values, and the second's value is returned.
C7_Witness ==
    /\ FnReturned("get_nonce") /\ Len(fn_in.replies) = 3
    /\ fn_in.replies[1] = NoAnswer
    /\ Reported(fn_in.replies[2], 1)
    /\ Reported(fn_in.replies[3], 0)
    /\ fn_out.value = Some(1)

MintFailedEarly ==
    \/ mint.signer \in {"unreachable", "exit1"}
    \/ mint.signer = "exit0" /\ mint.raw_tx # Some(<<"0x", "mint">>)
    \/ mint.accepted = "none"

\* C8: mint_tokens returns True exactly when an endpoint reported a receipt
\* within the wait, which happens only after the signer produced a raw
\* transaction and an endpoint accepted it; a signer that is unreachable or
\* exits nonzero, malformed output, or a broadcast no endpoint accepts makes it
\* return False without any receipt poll; an accepted broadcast with no receipt
\* by the deadline makes it return False; the process exits 0 on True, 1 on
\* False.
C8_MintOutcome ==
    (mode = "mint" /\ mint.returned # None) =>
        /\ pc = "exited"
        /\ mint.returned = Some(TRUE) <=> mint.receipt
        /\ mint.receipt =>
              /\ mint.signer = "exit0" /\ mint.raw_tx = Some(<<"0x", "mint">>)
              /\ mint.accepted = "some" /\ mint.polled
        /\ MintFailedEarly => mint.returned = Some(FALSE) /\ ~mint.polled
        /\ (mint.accepted = "some" /\ ~mint.receipt) =>
              mint.returned = Some(FALSE) /\ mint.polled
        /\ exit_status = Some(IF mint.returned = Some(TRUE) THEN 0 ELSE 1)

\* C8 witness: the broadcast was accepted, receipt rounds were issued, no
\* receipt came before the deadline, and the process exited 1.
C8_Witness ==
    /\ mode = "mint" /\ pc = "exited"
    /\ mint.accepted = "some" /\ mint.polled /\ ~mint.receipt
    /\ mint.returned = Some(FALSE) /\ exit_status = Some(1)

Bases == [k \in DOMAIN send_log |-> send_log[k].base]

\* C10: a finished run in which the signer signed every deposit and every
\* broadcast was accepted by at least one endpoint reports sent = len(deposits)
\* and failed = 0; with 25 deposits, batch size 10 and starting nonce 5 it made
\* exactly 3 send_batch calls with bases 5, 15, 25 and reports sent=25 failed=0.
C10_AllSent ==
    (Finished /\ clean) =>
        /\ summary = Some(<<deposits, 0>>)
        /\ (deposits = 25 /\ batch_size = 10 /\ start_read.value = Some(5)) =>
              /\ Bases = <<5, 15, 25>>
              /\ summary = Some(<<25, 0>>)

\* C10 witness: the run of 25 deposits in a healthy environment has finished.
C10_Witness ==
    /\ Finished /\ clean /\ healthy
    /\ deposits = 25 /\ Len(send_log) = 3 /\ summary = Some(<<25, 0>>)

\* ceil(n / b) for b >= 1
CeilDiv(n, b) == (n + b - 1) \div b

\* C11: in every run whose starting nonce read succeeded, the k-th send_batch
\* call gets the slice of deposits that starts at (k-1)*batch_size and holds
\* batch_size deposits, fewer only when the list ends there; when the run has
\* ended the signer was run exactly ceil(len(deposits)/batch_size) times and the
\* slices cover the whole list.
C11_CeilBatches ==
    (Dispatching /\ start_read.value # None) =>
        /\ \A k \in DOMAIN send_log :
             /\ send_log[k].start = (k - 1) * batch_size
             /\ send_log[k].len = Min(batch_size, deposits - send_log[k].start)
             /\ send_log[k].len = batch_size \/ k = Len(send_log)
        /\ pc = "exited" =>
             /\ Len(send_log) = CeilDiv(deposits, batch_size)
             /\ SumLen(send_log, Len(send_log)) = deposits

\* C12 as stated: a run over an empty deposit list ends with the summary
\* sent=0 failed=0, having run no signer, no broadcast and no barrier.
C12_EmptyRunReports ==
    (Dispatching /\ deposits = 0 /\ pc = "exited") =>
        /\ summary = Some(<<0, 0>>)
        /\ send_log = <<>> /\ barrier_log = <<>> /\ progress = None

\* C12: a run over an empty deposit list never runs the signer, a broadcast or
\* a barrier; it reads the starting nonce and, when that read succeeds, goes
\* straight to the summary sent=0 failed=0 with exit status 0; when no endpoint
\* answers the read it ends with exit status 1 and no summary.
C12_EmptyRunAfterRead ==
    (Dispatching /\ deposits = 0) =>
        /\ send_log = <<>> /\ barrier_log = <<>> /\ progress = None
        /\ last_batch = None /\ warnings = 0
        /\ pc \in {"start", "loop", "exited"}
        /\ pc = "loop" => ~MoreBatches
        /\ pc = "exited" =>
             IF start_read.value # None
             THEN summary = Some(<<0, 0>>) /\ exit_status = Some(0)
             ELSE summary = None /\ exit_status = Some(1)

\* C12 witness: the run over an empty list has printed its summary.
C12_Witness ==
    /\ Finished /\ deposits = 0 /\ start_read.value # None
    /\ summary = Some(<<0, 0>>) /\ send_log = <<>>

\* C13: every deposit of a processed batch is counted once, as sent or as
\* failed: send_batch's two counts add up to the batch length, between batches
\* total_sent + total_failed is the number of deposits handed to send_batch so
\* far and is the figure of the progress line, and the summary's two counts add
\* up to len(deposits).
C13_EveryIntentClassified ==
    /\ (Dispatching /\ last_batch # None) =>
          last_batch[1].sent + last_batch[1].failed = last_batch[1].len
    /\ (Dispatching /\ pc \in {"loop", "pace"} /\ progress # None) =>
          /\ total_sent + total_failed = SumLen(send_log, Len(send_log))
          /\ progress[1][1] = SumLen(send_log, Len(send_log))
    /\ Finished => summary[1][1] + summary[1][2] = deposits

\* sign_batch, lines 72-83: the deposits handed to one signer run, each as its
\* position in the deposit list and the nonce put in its `cast mktx` command.
SignerInputs(call) ==
    [i \in 1..call.len |-> <<call.start + (i - 1), call.base + (i - 1)>>]

\* Every (position, nonce) pair handed to the signer so far, tagged with the
\* call and the place in the call.
Submitted ==
    UNION {{<<k, i, SignerInputs(send_log[k])[i]>> : i \in 1..send_log[k].len} :
              k \in DOMAIN send_log}

\* C14: the deposit at position j is handed to the signer with nonce
\* start + j and no other, and at most once in a run; of two deposits handed
\* to the signer the later one in the list has the higher nonce, so the nonce
\* ranges of two send_batch calls never overlap; a transaction the signer
\* returns for position j carries nonce start + j.
C14_OneSequencePerIntent ==
    (Dispatching /\ start_read.value # None) =>
        /\ \A s \in Submitted : s[3][2] = start_read.value[1] + s[3][1]
        /\ \A s, t \in Submitted :
             /\ s[3][1] = t[3][1] => s = t
             /\ s[3][1] < t[3][1] => s[3][2] < t[3][2]
             /\ s[1] < t[1] => s[3][2] < t[3][2]
        /\ pc = "broadcast" =>
             \A i \in DOMAIN raw_txs :
                Truthy(raw_txs[i]) =>
                   raw_txs[i][1] = <<"0x", batch_start + (i - 1),
                                     start_read.value[1] + batch_start + (i - 1)>>

\* C14 witness: the second batch of a run came back from the signer with its
\* second deposit signed, at position 3 of the list.
C14_Witness ==
    /\ Dispatching /\ pc = "broadcast" /\ Len(send_log) = 2 /\ batch_start = 2
    /\ Len(raw_txs) = 1
    /\ raw_txs[1] = Some(<<"0x", 2, start_read.value[1] + 2>>)
    /\ Cardinality(Submitted) = 3

\* C15: no step of a barrier changes total_sent, total_failed or the expected
\* nonce, whatever the "latest" read returns; the nonce main holds for the next
\* batch when the barrier ends is the expected nonce, which is the starting
\* nonce plus the number of deposits handed to send_batch so far.
C15_BarrierFrame ==
    [][(Dispatching /\ pc = "pace") =>
          /\ total_sent' = total_sent
          /\ total_failed' = total_failed
          /\ expected_nonce' = expected_nonce
          /\ pc' = "pace" => nonce' = nonce
          /\ pc' # "pace" =>
                /\ pc' = "loop"
                /\ nonce' = expected_nonce
                /\ nonce' = start_read.value[1] + SumLen(send_log, Len(send_log))]_vars

\* C15 witness: a barrier has ended on a "latest" read above the expected
\* nonce, and main's nonce is the expected one.
C15_Witness ==
    /\ Dispatching /\ pc = "loop" /\ barrier_log # <<>>
    /\ current # None /\ current[1] > expected_nonce
    /\ nonce = expected_nonce
\* C16: a send_batch call starts only between batches: the broadcast loop of
\* the batch before it has run to its end and that batch's barrier has ended,
\* on a "latest" read at or above the expected nonce or past its deadline; a
\* barrier ends in no other way, and the batches begun are never more than one
\* ahead of the barriers ended.
C16_BatchesSerialized ==
    [][Dispatching =>
          /\ Len(send_log') = Len(send_log) + 1 =>
                /\ pc = "loop" /\ raw_txs = <<>> /\ idx = 0
                /\ Len(barrier_log) = Len(send_log)
                /\ Len(send_log) >= 1 =>
                      LET b == barrier_log[Len(barrier_log)]
                          prev == send_log[Len(send_log)]
                      IN  /\ last_batch # None /\ last_batch[1].len = prev.len
                          /\ b.expected = prev.base + prev.len
                          /\ b.how = "reached" =>
                                current # None /\ current[1] >= b.expected
                          /\ b.how = "deadline" =>
                                current = None \/ current[1] < b.expected
          /\ (pc = "broadcast" /\ pc' # "broadcast") => idx = Len(raw_txs) + 1
          /\ Len(barrier_log') = Len(barrier_log) + 1 =>
                /\ pc = "pace" /\ pc' = "loop"
                /\ \/ current' # None /\ current'[1] >= expected_nonce
                   \/ elapsed >= PaceTimeout
          /\ Len(send_log') - Len(barrier_log') \in {0, 1}]_vars

\* C16 witness: the second batch is in progress after the first batch's
\* barrier ran to its deadline.
C16_Witness ==
    /\ Dispatching /\ pc = "broadcast" /\ Len(send_log) = 2
    /\ Len(barrier_log) = 1 /\ barrier_log[1].how = "deadline"

\* C17: a barrier follows every send_batch call but the one for the last
\* slice: a barrier is only ever in progress for a batch that does not end the
\* list, the k-th barrier ended belongs to the k-th batch, a run that made
\* b >= 1 send_batch calls has ended exactly b - 1 barriers when it is between
\* the last batch and the summary and when it has exited, and so no "latest"
\* read follows the final batch.
C17_BarrierExceptLast ==
    (Dispatching /\ send_log # <<>>) =>
        LET b == Len(send_log)
            last == send_log[b]
        IN  /\ \A k \in DOMAIN barrier_log :
                 /\ k <= b
                 /\ barrier_log[k].expected = send_log[k].base + send_log[k].len
                 /\ send_log[k].start + send_log[k].len < deposits
            /\ pc = "pace" =>
                 /\ last.start + last.len < deposits
                 /\ Len(barrier_log) = b - 1
            /\ pc = "broadcast" => Len(barrier_log) = b - 1
            /\ (pc = "loop" /\ batch_start < deposits) => Len(barrier_log) = b
            /\ (pc = "loop" /\ batch_start >= deposits) =>
                 /\ last.start + last.len = deposits
                 /\ Len(barrier_log) = b - 1
            /\ pc = "exited" => Len(barrier_log) = b - 1

\* C17 witness: a finished run of three batches went through two barriers.
C17_Witness ==
    /\ Finished /\ Len(send_log) = 3 /\ Len(barrier_log) = 2
    /\ deposits = 3 /\ batch_size = 1
\* last endpoint, in list order, whose reply accepts the transaction; 0 if
\* none does
LastAccepting(r) ==
    IF \E e \in DOMAIN r : Accepts(r[e])
    THEN CHOOSE e \in DOMAIN r :
            Accepts(r[e]) /\ \A later \in DOMAIN r : later > e => ~Accepts(r[later])
    ELSE 0

\* C18: one broadcast_raw_tx call issues exactly one rpc_call per endpoint, in
\* list order, each with the raw transaction it was given, whatever the
\* endpoints before it replied; the id it returns is the one in the reply of
\* the last endpoint of the list that accepted.
C18_BroadcastEveryEndpoint ==
    FnReturned("broadcast_raw_tx") =>
        LET r == fn_in.replies
        IN  /\ fn_out.queried = [e \in 1..Len(r) |-> <<e, fn_in.raw_tx>>]
            /\ LastAccepting(r) # 0 =>
                  fn_out.tx_hash = Some(r[LastAccepting(r)].result)

\* C18 witness: of three endpoints the first and the third accepted, with
\* different ids, the second failed, and the call returned the third's id.
C18_Witness ==
    /\ FnReturned("broadcast_raw_tx") /\ Len(fn_in.replies) = 3
    /\ fn_in.replies[1] = ResultReply(<<"h", 1>>)
    /\ fn_in.replies[2] = NoAnswer
    /\ fn_in.replies[3] = ResultReply(<<"h", 2>>)
    /\ Len(fn_out.queried) = 3
    /\ fn_out.tx_hash = Some(<<"h", 2>>)
\* longest time one turn of the barrier's loop takes: every endpoint holds
\* its rpc_call until the timeout, then the sleep
PaceTurn == endpoints * RpcTimeout + PaceSleep

\* C19 as stated: a barrier has ended by the time its deadline is reached.
C19_BarrierEndsByDeadline ==
    (Dispatching /\ pc = "pace") => elapsed <= PaceTimeout

\* C19: every dispatch run ends; a barrier in progress makes no "latest" read
\* once its deadline has passed, its next step then being to warn and go on,
\* so it ends less than one turn of its loop after the deadline.
C19_Terminates ==
    /\ Dispatching ~> pc = "exited"
    /\ [](Dispatching /\ pc = "pace" => elapsed < PaceTimeout + PaceTurn)
    /\ [][(Dispatching /\ pc = "pace" /\ elapsed >= PaceTimeout) =>
             /\ pc' = "loop" /\ current' = current
             /\ warnings' = warnings + 1]_vars

\* C19 witness: a run has ended after a barrier in which no endpoint ever
\* answered ran to its deadline.
C19_Witness ==
    /\ Finished /\ barrier_log # <<>>
    /\ barrier_log[Len(barrier_log)].how = "deadline"
    /\ current = None /\ warnings >= 1
\* nonces the run has gone through so far: those of every finished
\* send_batch call and, while a batch is broadcast, of the slots behind idx
Processed ==
    IF start_read.value = None THEN {}
    ELSE start_read.value[1] ..
            (IF pc = "broadcast" THEN nonce + (idx - 1)
             ELSE start_read.value[1] + SumLen(send_log, Len(send_log))) - 1

\* nonces gone through of which the network holds no transaction
Holes == Processed \ net.pool

FirstHole == CHOOSE h \in Holes : \A g \in Holes : h <= g

\* A barrier ends on this step, in the way `how`.
BarrierEnds(how) ==
    /\ Len(barrier_log') = Len(barrier_log) + 1
    /\ barrier_log'[Len(barrier_log')].how = how

\* Once send_batch has counted a failure there is a nonce the network never
\* got, the confirmed count stays at or below it, below the expected nonce of
\* a barrier in progress, and no pooled transaction above it is confirmed.
StuckBehindFailure ==
    (Dispatching /\ total_failed + failed > 0) =>
        /\ Holes # {}
        /\ net.confirmed <= FirstHole
        /\ \A n \in net.pool : n > FirstHole => n >= net.confirmed
        /\ pc = "pace" => net.confirmed < expected_nonce

\* A barrier that ends without a warning ends with no failure counted and
\* every nonce handed out so far in the network's pool; with a failure
\* counted a barrier ends only past its deadline.
WarningFreeOnlyIfAllSent ==
    Dispatching =>
        /\ BarrierEnds("reached") =>
              /\ total_failed = 0
              /\ \A n \in start_read.value[1]..(expected_nonce - 1) : n \in net.pool
        /\ (total_failed > 0 /\ Len(barrier_log') = Len(barrier_log) + 1) =>
              /\ BarrierEnds("deadline")
              /\ elapsed >= PaceTimeout

====
